---- MODULE Spec2Model ----
(***************************************************************************)
(* State-machine model of wizardhat/plot/plot.py: the `Lines` plotter.     *)
(*                                                                         *)
(* Numbers.  The two view scales are only ever multiplied by exp(+-0.05)   *)
(* or exp(+-0.1) and clamped at 1 or at 0.01, so every value they take is  *)
(* base * e^(k/20) with base 1 or 0.01 and k an integer.  A scale is the   *)
(* record [base, k]; multiplication adds to k, and the comparisons with 1  *)
(* and 0.01 are decided by k and by 20*ln(100) = 92.10...  This is exact   *)
(* real arithmetic; the floating-point error of the code is what a claim's *)
(* "within tolerance" allows for.                                          *)
(* The quality value tanh((sd-30)/15)*5+5 is computed in fixed point, in   *)
(* units of 1/FixedOne, for integer sd.                                    *)
(***************************************************************************)
EXTENDS Integers, Sequences, FiniteSets, TLC

VARIABLES
    pc,           \* "start" | "running" | "ConfigError" | "ValueError"
    data,         \* self.data: the list of data sources
    plot_params,  \* the constructor's plot_params argument
    params,       \* self.params
    _cycle,       \* self._cycle: the index itertools.cycle yields next
    _data,        \* self._data: index (0-based) of the active source
    _n_lines,     \* self._n_lines
    _n_points,    \* self._n_points
    u_scale,      \* program['u_scale']
    a_position,   \* program['a_position']
    a_index,      \* program['a_index']
    _names,       \* self._names
    _quality,     \* self._quality
    viewport,     \* the canvas viewport
    exc,          \* exception raised by the last timer callback
    keylog,       \* history: the '+'/'-' keys pressed since construction
    dcount        \* history: the number of 'D' presses since construction

vars == <<pc, data, plot_params, params, _cycle, _data, _n_lines, _n_points,
          u_scale, a_position, a_index, _names, _quality, viewport, exc,
          keylog, dcount>>

----------------------------------------------------------------------------
(* Bounds of the model *)

MaxSources == 2
MaxChan == 1
NSamples == 2
MaxAppend == 1
MaxKeys == 1
MaxScaleKeys == 4
MaxScroll == 1
MaxD == 3
MaxSd == 60

----------------------------------------------------------------------------
(* Scales: base * e^(k/20) *)

\* floor(20 * ln(1 / 0.01)): 0.01 * e^(k/20) > 1 iff k > LnFloorSteps, and
\* e^(k/20) > 0.01 iff k >= -LnFloorSteps
LnFloorSteps == 92

One == [base |-> "one", k |-> 0]

AmpFloor == [base |-> "floor", k |-> 0]

\* s * math.exp(n * 0.05)
ExpMul(s, n) == [s EXCEPT !.k = @ + n]

\* s > 1
GtOne(s) == IF s.base = "one" THEN s.k > 0 ELSE s.k > LnFloorSteps

\* s > 0.01
GtAmpFloor(s) == IF s.base = "floor" THEN s.k > 0 ELSE s.k >= -LnFloorSteps

\* max(1, s)
MaxOne(s) == IF GtOne(s) THEN s ELSE One

\* max(0.01, s)
MaxAmpFloor(s) == IF GtAmpFloor(s) THEN s ELSE AmpFloor

----------------------------------------------------------------------------
(* Data sources (data.Data objects; external to plot.py) *)

\* A source as the plotter reads it: ch_names, n_chan, n_samples, and the
\* number of rows `unstructured` returns when it is read.
Source(c, n) ==
    [ch_names |-> [i \in 1..c |-> i], n_chan |-> c, n_samples |-> n, rows |-> n]

\* The `data` argument: one Data object, or a list of objects of one shape.
DataArgs ==
    {[single |-> TRUE, list |-> <<Source(c, NSamples)>>] : c \in 1..MaxChan}
    \cup {[single |-> FALSE, list |-> [i \in 1..n |-> Source(c, NSamples)]] :
            c \in 1..MaxChan, n \in 1..MaxSources}

\* the rows that have arrived in the sources srcs since construction
RECURSIVE Arrived(_)
Arrived(srcs) ==
    IF srcs = <<>> THEN 0
    ELSE (srcs[1].rows - srcs[1].n_samples) + Arrived(Tail(srcs))

\* A new row arrives in source i (the plotter only reads a snapshot); at most
\* MaxAppend rows arrive in all.
AppendSamples(i) ==
    /\ pc = "running"
    /\ i \in 1..Len(data)
    /\ Arrived(data) < MaxAppend
    /\ data' = [data EXCEPT ![i].rows = @ + 1]
    /\ UNCHANGED <<pc, plot_params, params, _cycle, _data, _n_lines, _n_points,
                   u_scale, a_position, a_index, _names, _quality, viewport,
                   exc, keylog, dcount>>

----------------------------------------------------------------------------
(* plot_params and dict.update *)

Pair(k, v) == [kind |-> "pair", key |-> k, val |-> v, len |-> 2]

\* an element that is not iterable (a number)
Scalar(v) == [kind |-> "scalar", key |-> "", val |-> v, len |-> 0]

\* an element that is a sequence of n items, n # 2 (a 1-character string,
\* a triple)
SeqOf(n) == [kind |-> "seq", key |-> "", val |-> 0, len |-> n]

PNone == [type |-> "none", items |-> <<>>]

PDict(items) == [type |-> "dict", items |-> items]

PList(items) == [type |-> "list", items |-> items]

PInt == [type |-> "int", items |-> <<>>]

\* a str iterates as its 1-character strings
PStr(n) == [type |-> "str", items |-> [i \in 1..n |-> SeqOf(1)]]

\* The values of plot_params tried at construction.
AllPlotParams ==
    { PNone,
      PDict(<<>>),
      PDict(<<Pair("scale", 100)>>),
      PDict(<<Pair("scale", -500), Pair("colour", 3)>>),
      PList(<<>>),
      PList(<<Pair("scale", 100)>>),
      PList(<<Pair("font_size", 24), Pair("scale", -500)>>),
      PList(<<Scalar(1), Scalar(2)>>),
      PList(<<Pair("scale", 100), SeqOf(3)>>),
      PInt,
      PStr(0),
      PStr(2) }

MainPlotParams == {PNone, PDict(<<Pair("scale", 100)>>), PInt}

IsMapping(x) == x.type = "dict"

\* d[k] = v for each pair, in order
RECURSIVE SetItems(_, _)
SetItems(d, items) ==
    IF items = <<>> THEN d
    ELSE SetItems((items[1].key :> items[1].val) @@ d, Tail(items))

\* The exception dict.update raises on a sequence of elements, "ok" if none:
\* the first element that is not a sequence raises TypeError, the first
\* sequence whose length is not 2 raises ValueError.
RECURSIVE SeqUpdateStatus(_)
SeqUpdateStatus(items) ==
    IF items = <<>> THEN "ok"
    ELSE IF items[1].kind = "scalar" THEN "TypeError"
    ELSE IF items[1].len # 2 THEN "ValueError"
    ELSE SeqUpdateStatus(Tail(items))

\* d.update(x): [status, value]
DictUpdate(d, x) ==
    IF IsMapping(x) THEN [status |-> "ok", value |-> SetItems(d, x.items)]
    ELSE IF x.type \in {"int", "none"} THEN [status |-> "TypeError", value |-> d]
    ELSE LET st == SeqUpdateStatus(x.items)
         IN  [status |-> st,
              value |-> IF st = "ok" THEN SetItems(d, x.items) ELSE d]

\* color_palette("RdYlGn", 11)[::-1]: colour i of the palette at place 11 - i
QualityPalette == [i \in 1..11 |-> <<"RdYlGn", 11 - i>>]

DefaultParams(n_lines) ==
    [title |-> "Plotter", font_size |-> 48, scale |-> 500,
     palette |-> <<"RdBu_r", n_lines>>, quality_palette |-> QualityPalette]

\* a constructor without the except clause: every exception passes as it is
ParamsOutcomeNoExcept(status) == IF status = "ok" THEN "running" ELSE status

\* The except clause of the constructor: what the try block's exception becomes
\* ("ConfigError" is the TypeError 'plot_params not a dict or key-value pairs
\* list'; any other exception leaves the constructor as it is).
ParamsOutcome(status) ==
    CASE status = "ok" -> "running"
      [] status = "TypeError" -> "ConfigError"
      [] OTHER -> status

----------------------------------------------------------------------------
(* Construction *)

\* a cycle that runs off the end of the list instead of wrapping
CycleAdvanceNoWrap(c, n) == c + 1

\* itertools.cycle(range(n)): the index that follows c
CycleAdvance(c, n) == (c + 1) % n

White == <<"white", 0>>

\* np.c_[zeros, repeat(arange(n_lines), n_points), tile(arange(n_points), n_lines)]
IndexBuffer(n_lines, n_points) ==
    [v \in 1..(n_lines * n_points) |->
        <<0, (v - 1) \div n_points, (v - 1) % n_points>>]

\* the amplitude 0.0
ZeroSample == [src |-> 0, ch |-> 0, row |-> 0]

\* np.zeros((n_lines, n_points)).reshape(-1, 1)
ZeroPosition(n_lines, n_points) == [v \in 1..(n_lines * n_points) |-> ZeroSample]

\* visuals.TextVisual(text, bold=True, color='white')
TextVisual(text) ==
    [text |-> text, color |-> White, font_size |-> 12, pos |-> <<0, <<0, 1>>>>]

\* the canvas size at construction
InitialSize == <<800, 600>>

\* Lines.__init__(data, plot_params)
Construct(d, pp) ==
    /\ pc = "start"
    /\ LET list == d.list
           first == list[1]
           upd == DictUpdate(DefaultParams(first.n_chan),
                             IF pp = PNone THEN PDict(<<>>) ELSE pp)
       IN  /\ plot_params' = pp
           /\ pc' = ParamsOutcome(upd.status)
           /\ IF upd.status = "ok"
              THEN /\ data' = list
                   /\ _data' = 0
                   /\ _cycle' = CycleAdvance(0, Len(list))
                   /\ _n_lines' = first.n_chan
                   /\ _n_points' = first.n_samples
                   /\ params' = upd.value
                   /\ u_scale' = <<One, One>>
                   /\ a_position' = ZeroPosition(first.n_chan, first.n_samples)
                   /\ a_index' = IndexBuffer(first.n_chan, first.n_samples)
                   /\ _names' = [l \in 1..first.n_chan |->
                                    TextVisual(<<first.ch_names[l]>>)]
                   /\ _quality' = [l \in 1..first.n_chan |-> TextVisual(<<>>)]
                   /\ viewport' = <<0, 0, InitialSize[1], InitialSize[2]>>
              ELSE UNCHANGED <<data, _data, _cycle, _n_lines, _n_points, params,
                               u_scale, a_position, a_index, _names, _quality,
                               viewport>>
    /\ UNCHANGED <<exc, keylog, dcount>>

----------------------------------------------------------------------------
(* Key presses and the scroll wheel *)

Keys == {"D", "+", "-", "Q"}

\* the scale branch also taken by 'D'
IsScaleKeyOrD(key) == key \in {"D", "+", "-"}

\* event.key.name in ['+', '-']
IsScaleKey(key) == key \in {"+", "-"}

\* both keys stepping the same way
KeyDxSame(key) == 1

\* dx of a key, in steps of 0.05
KeyDx(key) == IF key = "+" THEN -1 ELSE 1

\* the time scale a '+' or '-' press stores: max(1, scale_x * exp(1.0*dx))
KeyScaleX(scale_x, dx) == MaxOne(ExpMul(scale_x, 1 * dx))

\* the amplitude scale a '+' or '-' press stores: max(1, scale_y * exp(0.0*dx))
KeyScaleY(scale_y, dx) == MaxOne(ExpMul(scale_y, 0 * dx))

\* Lines.on_key_press(event), event.key.name = key
on_key_press(key) ==
    /\ pc = "running"
    /\ IF key = "D"
       THEN /\ _data' = _cycle
            /\ _cycle' = CycleAdvance(_cycle, Len(data))
       ELSE UNCHANGED <<_data, _cycle>>
    /\ IF IsScaleKey(key)
       THEN u_scale' = <<KeyScaleX(u_scale[1], KeyDx(key)),
                         KeyScaleY(u_scale[2], KeyDx(key))>>
       ELSE UNCHANGED u_scale
    /\ UNCHANGED <<pc, data, plot_params, params, _n_lines, _n_points,
                   a_position, a_index, _names, _quality, viewport, exc>>

\* np.sign(event.delta[1])
Sign(x) == IF x > 0 THEN 1 ELSE IF x < 0 THEN -1 ELSE 0

\* the time scale a scroll stores: max(1, scale_x * exp(0.0*dx))
WheelScaleX(scale_x, dx) == MaxOne(ExpMul(scale_x, 0 * dx))

\* a scroll that stores the amplitude scale without the floor
WheelScaleYNoFloor(scale_y, dx) == ExpMul(scale_y, 2 * dx)

\* the amplitude scale a scroll stores: max(0.01, scale_y * exp(2.0*dx))
WheelScaleY(scale_y, dx) == MaxAmpFloor(ExpMul(scale_y, 2 * dx))

\* Lines.on_mouse_wheel(event), event.delta[1] = delta
on_mouse_wheel(delta) ==
    /\ pc = "running"
    /\ u_scale' = <<WheelScaleX(u_scale[1], Sign(delta)),
                    WheelScaleY(u_scale[2], Sign(delta))>>
    /\ UNCHANGED <<pc, data, plot_params, params, _cycle, _data, _n_lines,
                   _n_points, a_position, a_index, _names, _quality, viewport,
                   exc>>

\* the vertical wheel deltas tried
Deltas == {-3, -1, 0, 1}

\* A scale's distance from 1 in steps of 0.05, rounded towards the floor lattice
StepsFromOne(s) == IF s.base = "one" THEN s.k ELSE s.k - LnFloorSteps

\* The history a key press leaves: the '+'/'-' keys and the count of 'D's
LogKey(key) ==
    /\ keylog' = IF key \in {"+", "-"} THEN Append(keylog, key) ELSE keylog
    /\ dcount' = IF key = "D" THEN dcount + 1 ELSE dcount

\* A key press while fewer than maxkeys '+'/'-' and fewer than MaxD 'D'
\* presses have happened
KeyPress(maxkeys) ==
    \E key \in Keys :
        /\ key \in {"+", "-"} => Len(keylog) < maxkeys
        /\ key = "D" => dcount < MaxD
        /\ on_key_press(key)
        /\ LogKey(key)

\* A scroll that keeps the amplitude scale within e^(+-down/20), e^(up/20)
Scroll(down, up) ==
    \E delta \in Deltas :
        /\ Sign(delta) > 0 => StepsFromOne(u_scale[2]) + 2 <= up
        /\ Sign(delta) < 0 => StepsFromOne(u_scale[2]) - 2 >= -down
        /\ on_mouse_wheel(delta)
        /\ UNCHANGED <<keylog, dcount>>

----------------------------------------------------------------------------
(* The timer callback *)

\* the fixed-point unit of the quality value
FixedOne == 10000

\* tanh(1/15) in units of 1/FixedOne
TanhStep == 666

\* tanh((sd - 30)/15)*5 + 5 is exactly 10.0 in float64 from sd - 30 = SatHi on
SatHi == 274

\* 1 - tanh(m/15) is below 1/FixedOne for m > TanhFlat
TanhFlat == 80

\* tanh(a + 1/15) from t = tanh(a): (t + tanh b) / (1 + t * tanh b)
TanhAddStep(t) ==
    LET den == (FixedOne * FixedOne + t * TanhStep) \div 1000
    IN  ((t + TanhStep) * FixedOne * 10 + den \div 2) \div den

\* tanh(2a) from t = tanh(a): 2t / (1 + t*t)
TanhDouble(t) ==
    LET den == (FixedOne * FixedOne + t * t) \div 1000
    IN  (2 * t * FixedOne * 10 + den \div 2) \div den

\* tanh(m/15) in units of 1/FixedOne, rounded but never up to 1; tanh is odd
RECURSIVE TanhFix(_)
TanhFix(m) ==
    IF m = 0 THEN 0
    ELSE IF m < 0 THEN -TanhFix(-m)
    ELSE IF m > TanhFlat THEN FixedOne - 1
    ELSE LET next == IF m % 2 = 0 THEN TanhDouble(TanhFix(m \div 2))
                     ELSE TanhAddStep(TanhFix(m - 1))
         IN  IF next < FixedOne THEN next ELSE FixedOne - 1

\* the quality value with the offset 6 in place of 5
QualityValueOffset6(sd) ==
    IF sd - 30 >= SatHi THEN 11 * FixedOne
    ELSE 5 * TanhFix(sd - 30) + 6 * FixedOne

\* np.tanh((sd - 30) / 15)*5 + 5, in units of 1/FixedOne
QualityValue(sd) ==
    IF sd - 30 >= SatHi THEN 10 * FixedOne
    ELSE 5 * TanhFix(sd - 30) + 5 * FixedOne

\* a conversion that rounds to the nearest integer
Int32Rounding(v) ==
    IF v >= 0 THEN (2 * v + FixedOne) \div (2 * FixedOne)
    ELSE -((2 * (-v) + FixedOne) \div (2 * FixedOne))

\* np.int32(v): the fraction is dropped (truncation towards zero)
Int32(v) == IF v >= 0 THEN v \div FixedOne ELSE -((-v) \div FixedOne)

\* co for one channel
QualityCategory(sd) == Int32(QualityValue(sd))

\* std(x / scale) * scale for std(x) = r: the sign of scale stays
Rescaled(r, scale) == IF scale > 0 THEN r ELSE -r

\* seq[i] in Python is defined for -len <= i < len
ValidIndex(seq, i) == -Len(seq) <= i /\ i < Len(seq)

PyIndex(seq, i) == IF i >= 0 THEN seq[i + 1] ELSE seq[Len(seq) + i + 1]

\* plot_data.T.ravel(): channel-major, the rows of a channel in time order
Ravel(src, cols, rows) ==
    [v \in 1..(cols * rows) |->
        [src |-> src, ch |-> ((v - 1) \div rows) + 1,
                      row |-> ((v - 1) % rows) + 1]]

\* What update_plot assigns; raw[c] is the standard deviation of the last 256
\* rows of channel c of the active source
UpdateFrame(raw) ==
    /\ pc = "running"
    /\ UNCHANGED <<pc, data, plot_params, params, _n_lines, _n_points,
                   viewport, keylog, dcount>>
    /\ LET src == data[_data + 1]
           scale == params.scale
           pal == params.quality_palette
           sd == [l \in 1..src.n_chan |->
                    Rescaled(raw[src.n_chan + 1 - l], scale)]
           co == [l \in 1..src.n_chan |-> QualityCategory(sd[l])]
           bad == {l \in 1.._n_lines : ~ValidIndex(pal, co[l])}
           stop == IF bad = {} THEN _n_lines + 1
                   ELSE CHOOSE l \in bad : \A k \in bad : l <= k
       IN  /\ _quality' = [l \in 1.._n_lines |->
                 IF l < stop
                 THEN [_quality[l] EXCEPT !.text = <<sd[l]>>,
                                          !.color = PyIndex(pal, co[l]),
                                          !.font_size = 12 + co[l]]
                 ELSE IF l = stop
                 THEN [_quality[l] EXCEPT !.text = <<sd[l]>>]
                 ELSE _quality[l]]
           /\ _names' = [l \in 1.._n_lines |->
                 IF l < stop
                 THEN [_names[l] EXCEPT !.font_size = 12 + co[l],
                                        !.color = PyIndex(pal, co[l])]
                 ELSE _names[l]]
           /\ IF bad = {}
              THEN /\ a_position' = Ravel(_data + 1, src.n_chan, src.rows)
                   /\ exc' = "none"
              ELSE /\ a_position' = a_position
                   /\ exc' = "IndexError"

\* a timer callback that also sets the view scale back to (1., 1.)
update_plot_resets_scale(raw) ==
    /\ u_scale' = <<One, One>>
    /\ UNCHANGED <<_cycle, _data, a_index>>
    /\ UpdateFrame(raw)

\* Lines.update_plot(ev)
update_plot(raw) ==
    /\ UNCHANGED <<_cycle, _data, u_scale, a_index>>
    /\ UpdateFrame(raw)

----------------------------------------------------------------------------
(* Resize and draw *)

\* the label position (x in 1/1000 pixel, y as the fraction <<num, den>>):
\* (size[0] * margin, ((l + 0.5)/n_lines) * size[1]) for l counted from 0
LabelPos(size, margin, l, n_lines) ==
    <<size[1] * margin, <<(2 * l + 1) * size[2], 2 * n_lines>>>>

\* Lines.on_resize(event), with physical_size = size
on_resize(size) ==
    /\ pc = "running"
    /\ viewport' = <<0, 0, size[1], size[2]>>
    /\ _names' = [l \in 1.._n_lines |->
                    [_names[l] EXCEPT !.pos = LabelPos(size, 25, l - 1, _n_lines)]]
    /\ _quality' = [l \in 1.._n_lines |->
                    [_quality[l] EXCEPT !.pos = LabelPos(size, 975, l - 1, _n_lines)]]
    /\ UNCHANGED <<pc, data, plot_params, params, _cycle, _data, _n_lines,
                   _n_points, u_scale, a_position, a_index, exc, keylog, dcount>>

\* Lines.on_draw(event): draws the program and the labels
on_draw ==
    /\ pc = "running"
    /\ UNCHANGED vars

Sizes == {<<400, 300>>}

\* the standard deviations tried by the timer of the full specification
MainSds == {0, 32}

\* the standard deviations tried when the quality mapping is checked
QualitySds == (0..MaxSd) \cup {SatHi + 29, SatHi + 30, SatHi + 31}

Init ==
    /\ pc = "start"
    /\ data = <<>>
    /\ plot_params = PNone
    /\ params = DefaultParams(0)
    /\ _cycle = 0
    /\ _data = 0
    /\ _n_lines = 0
    /\ _n_points = 0
    /\ u_scale = <<One, One>>
    /\ a_position = <<>>
    /\ a_index = <<>>
    /\ _names = <<>>
    /\ _quality = <<>>
    /\ viewport = <<0, 0, 0, 0>>
    /\ exc = "none"
    /\ keylog = <<>>
    /\ dcount = 0

\* The amplitude floor 0.01 is 93 steps below 1
FloorDepth == LnFloorSteps + 4

NextScale ==
    \/ \E d \in DataArgs, pp \in MainPlotParams : Construct(d, pp)
    \/ KeyPress(MaxScaleKeys)
    \/ Scroll(FloorDepth, 2 * MaxScroll)

SpecScale == Init /\ [][NextScale]_vars

Next ==
    \/ \E d \in DataArgs, pp \in MainPlotParams : Construct(d, pp)
    \/ KeyPress(MaxKeys)
    \/ Scroll(2 * MaxScroll, 0)
    \/ \E raw \in [1.._n_lines -> MainSds] : update_plot(raw)
    \/ \E size \in Sizes : on_resize(size)
    \/ on_draw
    \/ \E i \in 1..MaxSources : AppendSamples(i)

Spec == Init /\ [][Next]_vars

\* one source of one channel
QualityData == [single |-> TRUE, list |-> <<Source(1, NSamples)>>]

NextQuality ==
    \/ \E pp \in AllPlotParams : Construct(QualityData, pp)
    \/ \E raw \in [1.._n_lines -> QualitySds] : update_plot(raw)

SpecQuality == Init /\ [][NextQuality]_vars

----------------------------------------------------------------------------
(* Properties *)

\* s >= 1
AtLeastOne(s) ==
    \/ s.base = "one" /\ s.k >= 0
    \/ s.base = "floor" /\ s.k > LnFloorSteps

\* s >= 0.01
AtLeastAmpFloor(s) ==
    \/ s.base = "floor" /\ s.k >= 0
    \/ s.base = "one" /\ s.k >= -LnFloorSteps

\* C1: after any sequence of '+', '-' and scroll events the time-axis scale
\* is at least 1 and the amplitude-axis scale is at least 0.01.
C1_ScaleFloors ==
    pc = "running" => AtLeastOne(u_scale[1]) /\ AtLeastAmpFloor(u_scale[2])

\* the amplitude scale sits on its floor while the time scale is above 1
C1_Witness ==
    pc = "running" /\ u_scale[2] = AmpFloor /\ GtOne(u_scale[1])

\* seq is n times key a followed by n times key b, for some n >= 1
RoundTrip(seq, a, b) ==
    \E n \in 1..Len(seq) :
        /\ Len(seq) = 2 * n
        /\ \A i \in 1..n : seq[i] = a /\ seq[n + i] = b

\* C2 as claimed: on a plotter constructed with scale=500, n '+' presses
\* followed by n '-' presses return the time-axis scale to its initial value.
C2_PlusThenMinus ==
    (pc = "running" /\ params.scale = 500 /\ RoundTrip(keylog, "+", "-"))
        => u_scale[1] = One

\* C2 amended: on a plotter constructed with scale=500, n '-' presses followed
\* by n '+' presses return the time-axis scale to its initial value.
C2_MinusThenPlus ==
    (pc = "running" /\ params.scale = 500 /\ RoundTrip(keylog, "-", "+"))
        => u_scale[1] = One

\* two '-' presses and then two '+' presses have happened
C2_Witness ==
    /\ pc = "running"
    /\ params.scale = 500
    /\ keylog = <<"-", "-", "+", "+">>
    /\ u_scale[1] = One

\* C3: with exactly one data source registered, a 'D' press leaves the active
\* source, the amplitude buffer, the index buffer and the view scale unchanged.
C3_SingleSourceD ==
    [][(Len(data) = 1 /\ on_key_press("D"))
        => /\ _data' = _data
           /\ a_position' = a_position
           /\ a_index' = a_index
           /\ u_scale' = u_scale]_vars

\* 'D' has been pressed twice on a one-source plotter whose buffer holds a
\* frame and whose view has been scaled
C3_Witness ==
    /\ pc = "running"
    /\ Len(data) = 1
    /\ dcount >= 2
    /\ _data = 0
    /\ a_position # ZeroPosition(_n_lines, _n_points)
    /\ u_scale # <<One, One>>

\* C4: with N sources the active source after k presses of 'D', interleaved
\* with any other events, is source k mod N (source 0 after construction).
C4_RoundRobin ==
    pc = "running" => _data = dcount % Len(data)

\* the cycle has wrapped: as many presses as sources, other events between
C4_Witness ==
    /\ pc = "running"
    /\ Len(data) >= 2
    /\ dcount = Len(data)
    /\ _data = 0
    /\ keylog # <<>>
    /\ a_position # ZeroPosition(_n_lines, _n_points)

\* C5: for every finite standard deviation the timer computes, the quality
\* category is an integer in 0..10, a valid index into the 11 colours.
C5_CategoryInRange ==
    pc = "running" =>
        /\ exc = "none"
        /\ Len(params.quality_palette) = 11
        /\ \A l \in 1..Len(_quality) :
              _quality[l].text # <<>> =>
                  /\ _quality[l].font_size - 12 \in 0..10
                  /\ _names[l].font_size - 12 \in 0..10

\* a frame whose category is the top one, 10
C5_Witness ==
    /\ pc = "running"
    /\ _quality # <<>>
    /\ _quality[1].text # <<>>
    /\ _quality[1].font_size = 22

\* C6: the amplitude data written by the timer always has
\* channel_count x samples_per_channel entries, as fixed at construction.
C6_BufferLength ==
    pc = "running" => Len(a_position) = _n_lines * _n_points

\* plot_params is a list, tuple or string whose elements are all key-value
\* pairs (none at all included)
IsPairsSequence(x) ==
    /\ x.type \in {"list", "str"}
    /\ \A i \in 1..Len(x.items) : x.items[i].kind = "pair"

\* every key of the pairs holds the value of its last pair
Overridden(p, items) ==
    \A i \in 1..Len(items) :
        (\A j \in (i + 1)..Len(items) : items[j].key # items[i].key)
            => /\ items[i].key \in DOMAIN p
               /\ p[items[i].key] = items[i].val

\* C7 as claimed: construction with a plot_params that is not a mapping always
\* ends in the 'plot_params not a dict ...' error, and succeeds only for a
\* mapping or an absent value.
C7_NonMappingFails ==
    (pc # "start" /\ ~IsMapping(plot_params) /\ plot_params # PNone)
        => pc = "ConfigError"

\* C7 amended: a plot_params that is neither a mapping nor iterable ends in
\* the 'plot_params not a dict ...' error; an absent value and a mapping never
\* do; a mapping or a sequence of key-value pairs constructs the plotter with
\* the defaults overridden.
C7_NonIterableFails ==
    pc # "start" =>
        /\ plot_params.type = "int" => pc = "ConfigError"
        /\ (IsMapping(plot_params) \/ plot_params = PNone) => pc = "running"
        /\ (IsMapping(plot_params) \/ IsPairsSequence(plot_params))
              => pc = "running" /\ Overridden(params, plot_params.items)

\* construction with a number has failed
C7_Witness ==
    pc = "ConfigError" /\ plot_params = PInt

\* the integer nearest to v/FixedOne, held to 0..10
ClampedRound(v) ==
    LET r == Int32Rounding(v)
    IN  IF r < 0 THEN 0 ELSE IF r > 10 THEN 10 ELSE r

\* the standard deviation a label shows
ShownSd(l) == _quality[l].text[1]

\* C8 as claimed: the category of every channel is
\* clamp to [0,10] of round(tanh((sd - 30)/15)*5 + 5).
C8_Rounded ==
    pc = "running" =>
        \A l \in 1..Len(_quality) :
            _quality[l].text # <<>> =>
                _quality[l].font_size = 12 + ClampedRound(QualityValue(ShownSd(l)))

\* C8 amended: the category of every channel is tanh((sd - 30)/15)*5 + 5 with
\* its fraction dropped: the integer c with c <= value < c + 1, which is used
\* as palette index and font-size offset.
C8_Truncated ==
    pc = "running" =>
        \A l \in 1..Len(_quality) :
            _quality[l].text # <<>> =>
                LET c == _quality[l].font_size - 12
                    v == 5 * TanhFix(ShownSd(l) - 30) + 5 * FixedOne
                IN  /\ \/ c * FixedOne <= v /\ v < (c + 1) * FixedOne
                       \/ c = 10 /\ ShownSd(l) - 30 >= SatHi
                    /\ _quality[l].color = <<"RdYlGn", 10 - c>>
                    /\ _names[l].font_size = 12 + c
                    /\ _names[l].color = <<"RdYlGn", 10 - c>>

\* a frame with sd = 32: the value 5.66 gives category 5, not 6
C8_Witness ==
    /\ pc = "running"
    /\ _quality # <<>>
    /\ _quality[1].text = <<32>>
    /\ _quality[1].font_size = 17

\* C9: a '+' or '-' press leaves the amplitude-axis scale as it was.
C9_KeyKeepsAmplitude ==
    [][(\E key \in {"+", "-"} : on_key_press(key))
        => u_scale'[2] = u_scale[2]]_vars

\* C10: the timer callback leaves the view scale, the active source, the
\* position of the cycle and the index buffer unchanged.
\* (every step either keeps all four or is no step of the timer callback)
C10_UpdateFrameOnly ==
    [][\/ /\ u_scale' = u_scale
          /\ _data' = _data
          /\ _cycle' = _cycle
          /\ a_index' = a_index
       \/ ~(\E raw \in [1.._n_lines -> MainSds] : update_plot(raw))]_vars

\* a frame of a source other than the first is in the buffer while the view
\* is scaled
C10_Witness ==
    /\ pc = "running"
    /\ _data # 0
    /\ u_scale # <<One, One>>
    /\ exc = "none"
    /\ _quality[1].text # <<>>
    /\ a_position[1].src = _data + 1

====
